---- MODULE Spec2Model ----
(***************************************************************************)
(* Gesture-driven particle field (gesture-particles-3d).                   *)
(*                                                                         *)
(*   generateParticles   src/utils/geometry.ts                             *)
(*   predictWebcam       src/components/HandTracker.tsx                    *)
(*   interactionRef      src/App.tsx                                       *)
(*   Particles           src/components/UIControls.tsx (lines 130-262)     *)
(*                                                                         *)
(* Numbers.  The program computes with JavaScript numbers.  The model      *)
(* computes with integers.  A coordinate, a random draw, a landmark        *)
(* coordinate and a distance are counted in thousandths (FP units); a      *)
(* product of two such values is rounded to the nearest thousandth (Mul).  *)
(* Angles handed to sin and cos are counted in sixteenths of pi, which is  *)
(* exact for the random draws of RandSet (multiples of 1/8).               *)
(***************************************************************************)
EXTENDS Integers, Sequences, FiniteSets, TLC

\* ---------------------------------------------------------------- numbers

\* One unit of a coordinate: 1.0 is FP.
FP == 1000

\* Math.PI, in FP units.
PI == 3142

\* The value of an undefined floating-point result (Math.acos outside [-1, 1]).
NaN == 0 - (1024 * 1024 * 1024)

\* Number.isFinite for a coordinate stored in a Float32Array: not NaN, and
\* within the finite float32 range, which none of the model's integers leaves.
IsFinite(v) == v # NaN

Abs(v) == IF v < 0 THEN 0 - v ELSE v

\* a * b for two values in FP units, rounded to the nearest unit.
Mul(a, b) == ((a * b) + (FP \div 2)) \div FP

\* Math.max, Math.min
Max(a, b) == IF a >= b THEN a ELSE b

Min(a, b) == IF a <= b THEN a ELSE b

\* a / b for two values in FP units, b > 0, rounded to the nearest unit.
Div(a, b) == ((2 * a * FP) + b) \div (2 * b)

RECURSIVE SqrtSearch(_, _, _)
SqrtSearch(n, lo, hi) ==
    IF lo >= hi THEN lo
    ELSE LET mid == (lo + hi + 1) \div 2
         IN  IF mid * mid <= n THEN SqrtSearch(n, mid, hi)
                               ELSE SqrtSearch(n, lo, mid - 1)

\* The integer square root: the largest r with r * r <= n.
ISqrt(n) == SqrtSearch(n, 0, 46340)

\* sin(j * pi / 16) in FP units, j in 0 .. 8 (a quarter wave).
SinQuarter == <<0, 195, 383, 556, 707, 831, 924, 981, 1000>>

\* Math.sin of an angle of j sixteenths of pi.
Sin16(j) ==
    LET k == j % 32
    IN  IF k <= 8 THEN SinQuarter[k + 1]
        ELSE IF k <= 16 THEN SinQuarter[(16 - k) + 1]
        ELSE IF k <= 24 THEN 0 - SinQuarter[(k - 16) + 1]
        ELSE 0 - SinQuarter[(32 - k) + 1]

\* Math.cos of an angle of j sixteenths of pi.
Cos16(j) == Sin16(j + 8)

\* Math.atan(z) for z in [0, 1], in FP units: (pi/4) z + 0.273 z (1 - z), which
\* is within 0.004 of the arc tangent.
AtanUnit(z) == Mul(z, PI \div 4) + Mul(Mul(273, z), FP - z)

\* Math.atan2(y, x) in FP units, by octant.
Atan2(y, x) ==
    LET ax == Abs(x)
        ay == Abs(y)
        a  == IF ax = 0 /\ ay = 0 THEN 0
              ELSE IF ax >= ay THEN AtanUnit(Div(ay, ax))
              ELSE (PI \div 2) - AtanUnit(Div(ax, ay))
        b  == IF x < 0 THEN PI - a ELSE a
    IN  IF y < 0 THEN 0 - b ELSE b

\* Math.sin(x) for x in [0, pi], in FP units: Bhaskara's quotient
\* 16 x (pi - x) / (5 pi^2 - 4 x (pi - x)), which is within 0.002 of the sine.
SinHalfTurn(x) ==
    LET p   == x * (PI - x)
        den == ((5 * PI * PI) - (4 * p)) \div FP
    IN  ((32 * p) + den) \div (2 * den)

\* Math.sin and Math.cos of an angle in FP units (thousandths of a radian).
SinRad(a) ==
    LET r == a % (2 * PI)
    IN  IF r <= PI THEN SinHalfTurn(r) ELSE 0 - SinHalfTurn(r - PI)

CosRad(a) == SinRad(a + (PI \div 2))

\* The number of sixteenths of pi in u * turns16, u a random draw in FP units
\* (u * Math.PI * 2 is u * 32 sixteenths).
Steps(u, turns16) == (u * turns16) \div FP

\* ------------------------------------------------------------------ types

\* enum ParticleShape
ParticleShape == {"Galaxy", "Heart", "Flower", "Saturn", "Fireworks"}

\* A shape value outside the enum (a stale or foreign configuration value).
UnknownShape == "Unknown"

\* The number of particles of the field.  The program sets 4000; the model
\* checks with a small field.
PARTICLE_COUNT == 2

\* The draws Math.random() can return, in FP units: values of [0, 1).
RandSet == {0, 750}

\* The draws left to the coarse random source of the field's own generations.
RandCoarse == {125, 750}

\* The most calls of Math.random() one particle makes (a filled Heart point).
MaxDraws == 7

\* new Float32Array(n): n zeros, indexed from 0.
Float32Array(n) == [i \in 0 .. (n - 1) |-> 0]

\* ------------------------------------------------------------- generator

\* Math.acos(c) enters only through its sine and cosine.  cos(acos c) = c and
\* sin(acos c) = sqrt(1 - c^2) >= 0; outside [-1, 1] Math.acos is NaN.
AcosDefined(c) == c >= 0 - FP /\ c <= FP

SinAcos(c) == ISqrt((FP * FP) - (c * c))

\* AcosArg with the sign of the offset slipped: 2u + 1 leaves [-1, 1] for
\* every u > 0, where Math.acos is NaN.
AcosArgSignSlip(u) == (2 * u) + FP

\* The argument handed to Math.acos in randomSpherePoint.
AcosArg(u) == (2 * u) - FP

\* randomSpherePoint(r) with draws u1 (theta) and u2 (phi).
randomSpherePoint(r, u1, u2) ==
    LET theta == Steps(u1, 32)
        c     == AcosArg(u2)
    IN  IF ~AcosDefined(c) THEN <<NaN, NaN, NaN>>
        ELSE <<Mul(Mul(r, SinAcos(c)), Cos16(theta)),
               Mul(Mul(r, SinAcos(c)), Sin16(theta)),
               Mul(r, c)>>

\* case ParticleShape.HEART, with the draws d[1] .. d[7] in call order.
HeartPoint(d) ==
    LET t      == Steps(d[1], 32)
        scale  == 150
        s1     == Sin16(t)
        sin3   == Mul(Mul(s1, s1), s1)
        x0     == Mul(16 * sin3, scale) + (d[3] - 500)
        y0     == Mul((13 * Cos16(t)) - (5 * Cos16(2 * t)) - (2 * Cos16(3 * t))
                        - Cos16(4 * t), scale) + (d[4] - 500)
        z0     == (d[5] - 500) * 2
    IN  IF d[6] > 500
        THEN [pt |-> <<Mul(x0, d[7]), Mul(y0, d[7]), Mul(z0, d[7])>>, used |-> 7]
        ELSE [pt |-> <<x0, y0, z0>>, used |-> 6]

\* case ParticleShape.GALAXY
GalaxyPoint(d) ==
    LET steps        == Steps(d[1], 96)
        angle        == Mul(d[1], 6 * PI)
        radius       == d[2] * 5
        spiralOffset == 500
        arm          == radius + Mul(spiralOffset, angle)
        x0           == Mul(arm, Cos16(steps))
        z0           == Mul(arm, Sin16(steps))
        y0           == Mul(d[3] - 500, (10 * FP) - radius)
    IN  [pt |-> <<Mul(x0, 300), Mul(y0, 100), Mul(z0, 300)>>, used |-> 3]

\* case ParticleShape.SATURN
SaturnPoint(d) ==
    IF d[1] > 600
    THEN [pt |-> randomSpherePoint(1500, d[2], d[3]), used |-> 3]
    ELSE LET ringRad == (2 * FP) + Mul(d[2], 2500)
             theta   == Steps(d[3], 32)
         IN  [pt |-> <<Mul(ringRad, Cos16(theta)),
                       Mul(d[4] - 500, 100),
                       Mul(ringRad, Sin16(theta))>>, used |-> 4]

\* case ParticleShape.FLOWER
FlowerPoint(d) ==
    LET k       == 4
        thetaFl == Steps(d[1], 32)
        radFl   == (Cos16(k * thetaFl) * 3) + FP
        phiFl   == Steps(d[2] - 500, 8)
    IN  [pt |-> <<Mul(Mul(radFl, Cos16(thetaFl)), Cos16(phiFl)),
                  Mul(Mul(radFl, Sin16(thetaFl)), Cos16(phiFl)),
                  Mul(radFl, Sin16(phiFl))>>, used |-> 2]

\* case ParticleShape.FIREWORKS
FireworksPoint(d) ==
    [pt |-> randomSpherePoint(d[1] * 4, d[2], d[3]), used |-> 3]

\* default: a filled cube
DefaultPoint(d) ==
    [pt |-> <<(d[1] - 500) * 10, (d[2] - 500) * 10, (d[3] - 500) * 10>>, used |-> 3]

\* The switch of generateParticles for one particle.
ShapePoint(shape, d) ==
    CASE shape = "Heart"     -> HeartPoint(d)
      [] shape = "Galaxy"    -> GalaxyPoint(d)
      [] shape = "Saturn"    -> SaturnPoint(d)
      [] shape = "Flower"    -> FlowerPoint(d)
      [] shape = "Fireworks" -> FireworksPoint(d)
      [] OTHER               -> DefaultPoint(d)

\* The number of iterations of the particle loop.
LoopCount == PARTICLE_COUNT

\* One iteration of the particle loop: particle i from the draws d[1] .. d[7]
\* of its Math.random() calls, stored at i3, i3 + 1, i3 + 2.
LoopBody(shape, d, i, positions) ==
    LET pt == ShapePoint(shape, d).pt
        i3 == i * 3
    IN  [positions EXCEPT ![i3] = pt[1], ![i3 + 1] = pt[2], ![i3 + 2] = pt[3]]

\* The particle loop from particle i on; the random source is the tape of
\* draws, read from position p (1-based) in call order.
RECURSIVE GenLoop(_, _, _, _, _)
GenLoop(shape, tape, i, p, positions) ==
    IF i >= LoopCount THEN positions
    ELSE LET d == [k \in 1 .. MaxDraws |-> tape[p + k - 1]]
         IN  GenLoop(shape, tape, i + 1, p + ShapePoint(shape, d).used,
                     LoopBody(shape, d, i, positions))

\* generateParticles(shape), the draws of Math.random() given as a tape.
generateParticles(shape, tape) ==
    GenLoop(shape, tape, 0, 1, Float32Array(PARTICLE_COUNT * 3))

\* The tapes of draws long enough for one generation, over the draws R.
Tapes(R) == [1 .. (MaxDraws * PARTICLE_COUNT) -> R]

\* -------------------------------------------------------------- extractor

\* A landmark: normalized image coordinates, in FP units.
Pt(px, py) == [x |-> px, y |-> py]

\* One detected hand, result.landmarks[k]: a list of len landmarks, of which
\* the program reads the entries 0 (wrist), 4 (thumb tip) and 8 (index tip).
\* A well-formed hand has 21 landmarks.
Hand(n, w, t, i) == [len |-> n, wrist |-> w, thumb |-> t, index |-> i]

\* landmarks[k] is undefined when the list has no entry k.
HasLandmark(hand, k) == k < hand.len

Landmark(hand, k) ==
    CASE k = 0 -> hand.wrist
      [] k = 4 -> hand.thumb
      [] k = 8 -> hand.index

\* Math.sqrt(Math.pow(p.x - q.x, 2) + Math.pow(p.y - q.y, 2))
Dist(p, q) == ISqrt(((p.x - q.x) * (p.x - q.x)) + ((p.y - q.y) * (p.y - q.y)))

\* The value handed to onInteractionUpdate.
Sample(scale, posX, posY, rotX, rotY, rotZ) ==
    [scale    |-> scale,
     position |-> [x |-> posX, y |-> posY],
     rotation |-> [x |-> rotX, y |-> rotY, z |-> rotZ]]

\* A neutral sample whose scale starts at 0 where the code starts at 1.0.
ZeroScaleSample == Sample(0, 0, 0, 0, 0, 0)

\* A neutral sample whose scale starts at 1.2.
OffScaleSample == Sample(1200, 0, 0, 0, 0, 0)

\* let scale = 1.0, posX = 0, posY = 0, rotX = 0, rotY = 0, rotZ = 0
NeutralSample == Sample(FP, 0, 0, 0, 0, 0)

\* The two-hand scale without the clamp of the distance to [0.1, 0.8].
TwoHandScaleUnclamped(dist) == 500 + Mul(Div(dist - 100, 700), 2 * FP)

\* The scale of the two-hand branch from the wrist distance.
TwoHandScale(dist) ==
    LET clampedDist == Max(100, Min(dist, 800))
    IN  500 + Mul(Div(clampedDist - 100, 700), 2 * FP)

\* The one-hand scale without the clamp of the distance to [0.02, 0.2].
OneHandScaleUnclamped(dist) == 500 + Mul(Div(dist - 20, 180), 1500)

\* The scale of the one-hand branch from the pinch distance.
OneHandScale(dist) ==
    LET clampedDist == Max(20, Min(dist, 200))
    IN  500 + Mul(Div(clampedDist - 20, 180), 1500)

\* posX and posY from a point of the image.
PosX(cx) == (500 - cx) * 8

PosY(cy) == (0 - (cy - 500)) * 6

\* The two-hand branch: hand1 and hand2 are the wrists.
TwoHands(hand1, hand2) ==
    LET avgX == (hand1.x + hand2.x) \div 2
        avgY == (hand1.y + hand2.y) \div 2
        dx   == hand2.x - hand1.x
        dy   == hand2.y - hand1.y
    IN  Sample(TwoHandScale(Dist(hand1, hand2)),
               PosX(avgX), PosY(avgY),
               (avgY - 500) * 2, (500 - avgX) * 2, 0 - Atan2(dy, dx))

\* The one-hand branch.
OneHand(thumb, index, wrist) ==
    Sample(OneHandScale(Dist(thumb, index)),
           PosX(wrist.x), PosY(wrist.y),
           (wrist.y - 500) * 3, (500 - wrist.x) * 3, 0)

\* An extractor that takes the two-hand branch with the first two hands
\* whenever two or more hands are detected.
ExtractFirstTwo(landmarks) ==
    IF Len(landmarks) >= 2
    THEN IF HasLandmark(landmarks[1], 0) /\ HasLandmark(landmarks[2], 0)
         THEN [threw |-> FALSE,
               data  |-> TwoHands(Landmark(landmarks[1], 0), Landmark(landmarks[2], 0))]
         ELSE [threw |-> TRUE, data |-> NeutralSample]
    ELSE IF Len(landmarks) = 1
    THEN IF /\ HasLandmark(landmarks[1], 4)
            /\ HasLandmark(landmarks[1], 8)
            /\ HasLandmark(landmarks[1], 0)
         THEN [threw |-> FALSE,
               data  |-> OneHand(Landmark(landmarks[1], 4), Landmark(landmarks[1], 8),
                                 Landmark(landmarks[1], 0))]
         ELSE [threw |-> TRUE, data |-> NeutralSample]
    ELSE [threw |-> FALSE, data |-> NeutralSample]

\* The body of predictWebcam from "let scale = 1.0" to the argument of
\* onInteractionUpdate, for result.landmarks = landmarks (a sequence of
\* hands).  Reading .x of an undefined landmark throws a TypeError.
Extract(landmarks) ==
    IF Len(landmarks) = 2
    THEN IF HasLandmark(landmarks[1], 0) /\ HasLandmark(landmarks[2], 0)
         THEN [threw |-> FALSE,
               data  |-> TwoHands(Landmark(landmarks[1], 0), Landmark(landmarks[2], 0))]
         ELSE [threw |-> TRUE, data |-> NeutralSample]
    ELSE IF Len(landmarks) = 1
    THEN IF /\ HasLandmark(landmarks[1], 4)
            /\ HasLandmark(landmarks[1], 8)
            /\ HasLandmark(landmarks[1], 0)
         THEN [threw |-> FALSE,
               data  |-> OneHand(Landmark(landmarks[1], 4), Landmark(landmarks[1], 8),
                                 Landmark(landmarks[1], 0))]
         ELSE [threw |-> TRUE, data |-> NeutralSample]
    ELSE [threw |-> FALSE, data |-> NeutralSample]

\* ------------------------------------------------------- detection inputs

\* Wrist positions: inside the image, and outside it (x = -0.2, y = 1.1).
WristPts ==
    {Pt(300, 500), Pt(360, 500), Pt(700, 500), Pt(700, 800), Pt(0 - 200, 1100)}

ThumbPt == Pt(400, 400)

\* Index tips at pinch distances 10, 100 and 300 from ThumbPt.
IndexPts == {Pt(400, 410), Pt(460, 480), Pt(400, 700)}

\* Well-formed hands (21 landmarks).
FullHands == {Hand(21, w, ThumbPt, i) : w \in WristPts, i \in IndexPts}

\* Hands whose landmark list is too short: no landmark at all, and a list
\* that ends before the index tip.
ShortHands == {Hand(0, Pt(0, 0), Pt(0, 0), Pt(0, 0)),
               Hand(5, Pt(300, 500), ThumbPt, Pt(0, 0))}

\* The hands of a result of two or more: of these only the wrist is read.
WristHands == {Hand(21, w, ThumbPt, Pt(400, 410)) : w \in WristPts} \cup ShortHands

\* A third hand, for results of more than two hands.
ThirdHands == {Hand(21, Pt(500, 200), ThumbPt, Pt(400, 410))}

\* The values of result.landmarks the hand tracker is checked with.
Detections ==
    {<<>>}
      \cup {<<h>> : h \in FullHands \cup ShortHands}
      \cup {<<h1, h2>> : h1 \in WristHands, h2 \in WristHands}
      \cup {<<h1, h2, h3>> : h1 \in {Hand(21, Pt(300, 500), ThumbPt, Pt(400, 410))},
                             h2 \in WristHands, h3 \in ThirdHands}

\* The values of result.landmarks the field is checked with.
CoarseDetections ==
    {<<>>,
     <<Hand(21, Pt(300, 500), ThumbPt, Pt(400, 700))>>,
     <<Hand(21, Pt(300, 500), ThumbPt, Pt(400, 410)),
       Hand(21, Pt(700, 800), ThumbPt, Pt(400, 410))>>}

\* ------------------------------------------------------------------ field

\* The most render ticks of a run.
MaxTicks == 3

\* The most shape changes of a run.
MaxShapeChanges == 2

RECURSIVE Pow20(_)
Pow20(n) == IF n = 0 THEN 1 ELSE 20 * Pow20(n - 1)

\* The smoothed values (scale, offset, rotation, morph coordinates) are
\* counted in units of 1 / (FP * K) with K = 20 ^ MaxTicks: every smoothing
\* factor of the program is a multiple of 1/20, so that MaxTicks smoothing
\* steps are computed without rounding.
K == Pow20(MaxTicks)

\* A value in FP units, in the units of the smoothed values.
ToFine(v) == v * K

\* A smoothed value rounded to FP units.
ToFP(v) == ((2 * v) + K) \div (2 * K)

\* A Float32Array of FP values, in the units of the smoothed values.
FineArray(a) == [i \in DOMAIN a |-> ToFine(a[i])]

\* (n20 / 20) * g rounded to the unit of the smoothed values: exact where g
\* is a multiple of 20, as it is for the first MaxTicks smoothing steps.
Scaled(g, n20) == (n20 * (g \div 20)) + (((n20 * (g % 20)) + 10) \div 20)

\* The interpolation with the sign of the step slipped: away from y.
LerpAway(x, y, n20) == x - Scaled(y - x, n20)

\* THREE.MathUtils.lerp(x, y, t) = x + (y - x) * t for t = n20 / 20.
Lerp(x, y, n20) == x + Scaled(y - x, n20)

\* The smoothing factors, in twentieths: lerpSpeed = 0.15 and the scale
\* factor 0.15; the offset and rotation factor 0.1.
LerpSpeed20 == 3

ScaleLerp20 == 3

PosLerp20 == 2

RotLerp20 == 2

\* current += (target - current) * lerpSpeed
MorphStep(current, target) == current + Scaled(target - current, LerpSpeed20)

\* The breathing factor with the cosine in place of the sine: 1.05 at time 0.
BreathingCos(time) == Mul(CosRad(time * 2), 50) + FP

\* Math.sin(time * 2) * 0.05 + 1
Breathing(time) == Mul(SinRad(time * 2), 50) + FP

\* The deadband test with 0.5 in place of 0.05.
IsInteractingWide(smoothedScale) == Abs(smoothedScale - ToFine(FP)) > ToFine(500)

\* Math.abs(smoothedScale - 1.0) > 0.05, smoothedScale a smoothed value.
IsInteracting(smoothedScale) == Abs(smoothedScale - ToFine(FP)) > ToFine(50)

\* isInteracting ? smoothedScale : smoothedScale * breathing, in FP units.
FinalScale(smoothedScale, time) ==
    IF IsInteracting(smoothedScale)
    THEN ToFP(smoothedScale)
    ELSE Mul(ToFP(smoothedScale), Breathing(time))

\* The angles of new THREE.Euler(rot.x, rot.y + time * 0.05, rot.z), in FP
\* units.
EulerOf(rot, time) ==
    [x |-> ToFP(rot.x), y |-> ToFP(rot.y) + Mul(time, 50), z |-> ToFP(rot.z)]

\* tempVec.applyQuaternion(new THREE.Quaternion().setFromEuler(euler)): the
\* rotation of Euler order XYZ, written as its matrix.
ApplyEuler(v, euler) ==
    LET a == CosRad(euler.x)
        b == SinRad(euler.x)
        c == CosRad(euler.y)
        d == SinRad(euler.y)
        e == CosRad(euler.z)
        f == SinRad(euler.z)
    IN  <<Mul(Mul(c, e), v[1]) - Mul(Mul(c, f), v[2]) + Mul(d, v[3]),
          Mul(Mul(a, f) + Mul(Mul(b, e), d), v[1])
            + Mul(Mul(a, e) - Mul(Mul(b, f), d), v[2]) - Mul(Mul(b, c), v[3]),
          Mul(Mul(b, f) - Mul(Mul(a, e), d), v[1])
            + Mul(Mul(b, e) + Mul(Mul(a, f), d), v[2]) + Mul(Mul(a, c), v[3])>>

\* The transform with the offset added before the multiplication by
\* finalScale.
ComposeOffsetFirst(v, smoothedScale, offsetX, offsetY, rot, time) ==
    LET finalScale == FinalScale(smoothedScale, time)
        tempVec    == ApplyEuler(v, EulerOf(rot, time))
    IN  <<Mul(tempVec[1] + ToFP(offsetX), finalScale),
          Mul(tempVec[2] + ToFP(offsetY), finalScale),
          Mul(tempVec[3], finalScale)>>

\* Steps B to D of the particle loop for one particle: the morphed point v (FP
\* units) rotated, scaled by finalScale and moved by the offset.
Compose(v, smoothedScale, offsetX, offsetY, rot, time) ==
    LET finalScale == FinalScale(smoothedScale, time)
        tempVec    == ApplyEuler(v, EulerOf(rot, time))
    IN  <<Mul(tempVec[1], finalScale) + ToFP(offsetX),
          Mul(tempVec[2], finalScale) + ToFP(offsetY),
          Mul(tempVec[3], finalScale)>>

\* The morph step with particle i written from particle i + 1 of the target.
MorphAllShifted(current, target) ==
    [k \in DOMAIN current |->
        MorphStep(current[k], target[(k + 3) % (3 * PARTICLE_COUNT)])]

\* The particle loop of useFrame: step A on currentPositions.
MorphAll(current, target) == [k \in DOMAIN current |-> MorphStep(current[k], target[k])]

\* The particle loop of useFrame: positionAttribute.setXYZ for every particle,
\* from the morphed buffer.
ComposeAll(morphed, smoothedScale, offsetX, offsetY, rot, time) ==
    [k \in 0 .. ((3 * PARTICLE_COUNT) - 1) |->
        LET i3 == (k \div 3) * 3
            v  == <<ToFP(morphed[i3]), ToFP(morphed[i3 + 1]), ToFP(morphed[i3 + 2])>>
        IN  Compose(v, smoothedScale, offsetX, offsetY, rot, time)[(k % 3) + 1]]

\* The draws of the field's own generations: the tapes that alternate two
\* different draws of RandCoarse.
CoarseTapes ==
    {[k \in 1 .. (MaxDraws * PARTICLE_COUNT) |-> IF k % 2 = 1 THEN ab[1] ELSE ab[2]] :
        ab \in {p \in RandCoarse \X RandCoarse : p[1] # p[2]}}

\* The time between two render ticks, in FP units (thousandths of a second).
FrameDeltas == {400}

\* ---------------------------------------------------------------- state

\* The most animation-frame requests of the hand tracker.
MaxHandles == 2

\* The most 'loadeddata' events of the video element.
MaxLoaded == 2

VARIABLES
    genShape,   \* the argument of the generateParticles call under check
    genI,       \* its loop index i
    genOut,     \* its buffer, positions
    genPc,      \* "loop" inside the particle loop, "done" once it returned
    interactionRef,     \* App: interactionRef.current
    isTracking,         \* App: the isTracking state
    active,             \* HandTracker: the flag of the effect's closure
    setupPc,            \* HandTracker: where setupMediaPipe / startWebcam stands
    handLandmarkerRef,  \* HandTracker: "null", or the instance: "open", "closed"
    videoRef,           \* HandTracker: "null" or "video"
    listening,          \* the video has the 'loadeddata' listener predictWebcam
    streamOpen,         \* a webcam stream was acquired (it is never stopped)
    requestRef,         \* HandTracker: requestRef.current
    pending,            \* the animation-frame requests not yet run or cancelled
    nextHandle,         \* the handle the next requestAnimationFrame returns
    loaded,             \* the 'loadeddata' events fired so far
    lastResult,         \* result.landmarks of the latest call that detected
    lastCall,           \* how the latest predictWebcam call ended: "none" (no
                        \* call yet), "returned" (no video or no landmarker),
                        \* "idle" (video not playing), "wrote", "threw"
    prevRef,            \* interactionRef.current when that call was entered
    threw,              \* a predictWebcam call threw (the count of such calls)
    currentShape,       \* App: the currentShape state
    positions,          \* Particles: the output buffer (FP units)
    currentPositions,   \* Particles: the current-morph buffer (smoothed units)
    targetPositions,    \* Particles: the target-morph buffer (smoothed units)
    currentScaleRef,    \* Particles: the smoothed scale
    currentPosRef,      \* Particles: the smoothed offset, [x, y]
    currentRotRef,      \* Particles: the smoothed rotation, [x, y, z]
    elapsed,            \* state.clock.getElapsedTime() at the next tick (FP units)
    ticks,              \* the useFrame calls so far
    tickThrew,          \* the useFrame calls that threw
    shapeChanges,       \* the shape changes so far
    finalScale,         \* finalScale of the latest tick that reached the
                        \* particle loop (FP units); 0 before it
    arrays,             \* Particles: the Float32Array object each of the names
                        \* positions, currentPositions, targetPositions is bound
                        \* to, by its allocation number
    allocated,          \* the Float32Array objects allocated so far
    newTargets          \* Particles: the array generateParticles returned to
                        \* the latest run of the shape effect (FP units)

genVars == <<genShape, genI, genOut, genPc>>

trackVars == <<interactionRef, isTracking, active, setupPc, handLandmarkerRef,
               videoRef, listening, streamOpen, requestRef, pending, nextHandle,
               loaded, lastResult, lastCall, prevRef, threw>>

fieldVars == <<currentShape, positions, currentPositions, targetPositions,
               currentScaleRef, currentPosRef, currentRotRef, elapsed, ticks,
               tickThrew, shapeChanges, finalScale, arrays, allocated,
               newTargets>>

vars == <<genVars, trackVars, fieldVars>>

\* ------------------------------------------------------------- generator

\* The call generateParticles(genShape) up to its loop: the buffer allocated.
GenStart ==
    /\ genI = 0
    /\ genOut = Float32Array(PARTICLE_COUNT * 3)
    /\ genPc = "loop"

\* One iteration of the particle loop, for every draw of the random source.
GenStep ==
    /\ genPc = "loop"
    /\ genI < LoopCount
    /\ \E d \in [1 .. MaxDraws -> RandSet] :
           genOut' = LoopBody(genShape, d, genI, genOut)
    /\ genI' = genI + 1
    /\ UNCHANGED <<genShape, genPc>>
    /\ UNCHANGED <<trackVars, fieldVars>>

\* The loop ends and generateParticles returns positions.
GenReturn ==
    /\ genPc = "loop"
    /\ genI >= LoopCount
    /\ genPc' = "done"
    /\ UNCHANGED <<genShape, genI, genOut>>
    /\ UNCHANGED <<trackVars, fieldVars>>

\* ---------------------------------------------------------- hand tracker

\* App: useRef<InteractionData>({ scale: 1.0, position: { x: 0, y: 0 } }).
\* The initial value has no rotation field.
InitialInteraction == [scale |-> FP, position |-> [x |-> 0, y |-> 0]]

\* HandTracker mounted: the effect ran up to the first await of
\* setupMediaPipe.
TrackInit ==
    /\ interactionRef = InitialInteraction
    /\ isTracking = FALSE
    /\ active = TRUE
    /\ setupPc = "resolver"
    /\ handLandmarkerRef = "null"
    /\ videoRef = "video"
    /\ listening = FALSE
    /\ streamOpen = FALSE
    /\ requestRef = 0
    /\ pending = {}
    /\ nextHandle = 1
    /\ loaded = 0
    /\ lastResult = <<>>
    /\ lastCall = "none"
    /\ prevRef = InitialInteraction
    /\ threw = 0

\* await FilesetResolver.forVisionTasks(...) resolves; "if (!active) return".
ResolverResolved ==
    /\ setupPc = "resolver"
    /\ setupPc' = IF active THEN "create" ELSE "returned"
    /\ UNCHANGED <<interactionRef, isTracking, active, handLandmarkerRef, videoRef,
                   listening, streamOpen, requestRef, pending, nextHandle, loaded,
                   lastResult, lastCall, prevRef, threw>>
    /\ UNCHANGED <<genVars, fieldVars>>

\* An await of setupMediaPipe rejects: the catch logs the error.
SetupRejected ==
    /\ setupPc \in {"resolver", "create"}
    /\ setupPc' = "failed"
    /\ UNCHANGED <<interactionRef, isTracking, active, handLandmarkerRef, videoRef,
                   listening, streamOpen, requestRef, pending, nextHandle, loaded,
                   lastResult, lastCall, prevRef, threw>>
    /\ UNCHANGED <<genVars, fieldVars>>

\* await HandLandmarker.createFromOptions(...) resolves: the instance is
\* stored and startWebcam() runs up to its await of getUserMedia (or returns
\* at once where navigator.mediaDevices is missing).
CreateResolved ==
    /\ setupPc = "create"
    /\ handLandmarkerRef' = "open"
    /\ \E mediaDevices \in BOOLEAN :
           setupPc' = IF mediaDevices THEN "webcam" ELSE "done"
    /\ UNCHANGED <<interactionRef, isTracking, active, videoRef, listening,
                   streamOpen, requestRef, pending, nextHandle, loaded, lastResult,
                   lastCall, prevRef, threw>>
    /\ UNCHANGED <<genVars, fieldVars>>

\* await getUserMedia(...) resolves with a stream.
WebcamResolved ==
    /\ setupPc = "webcam"
    /\ setupPc' = "done"
    /\ streamOpen' = TRUE
    /\ IF videoRef # "null"
       THEN listening' = TRUE /\ isTracking' = TRUE
       ELSE UNCHANGED <<listening, isTracking>>
    /\ UNCHANGED <<interactionRef, active, handLandmarkerRef, videoRef, requestRef,
                   pending, nextHandle, loaded, lastResult, lastCall, prevRef, threw>>
    /\ UNCHANGED <<genVars, fieldVars>>

\* await getUserMedia(...) rejects (camera denied): the catch logs the error.
WebcamRejected ==
    /\ setupPc = "webcam"
    /\ setupPc' = "done"
    /\ UNCHANGED <<interactionRef, isTracking, active, handLandmarkerRef, videoRef,
                   listening, streamOpen, requestRef, pending, nextHandle, loaded,
                   lastResult, lastCall, prevRef, threw>>
    /\ UNCHANGED <<genVars, fieldVars>>

\* if (!video || !landmarker) return: the call requests no animation frame.
ReturnsAtOnce == videoRef = "null" \/ handLandmarkerRef = "null"

\* predictWebcam(), entered with the animation-frame requests pend still
\* pending, for the detection results D.  It returns at once without video
\* or landmarker; it detects and writes the shared cell when the video plays;
\* it requests the next animation frame unless the detection branch threw.
PredictWebcam(D, pend) ==
    /\ prevRef' = interactionRef
    /\ IF ReturnsAtOnce
       THEN /\ pending' = pend
            /\ lastCall' = "returned"
            /\ UNCHANGED <<interactionRef, requestRef, nextHandle, lastResult, threw>>
       ELSE \E playing \in BOOLEAN :
              IF playing
              THEN \E landmarks \in D :
                     LET r == Extract(landmarks)
                     IN  /\ lastResult' = landmarks
                         /\ IF r.threw
                            THEN /\ threw' = threw + 1
                                 /\ pending' = pend
                                 /\ lastCall' = "threw"
                                 /\ UNCHANGED <<interactionRef, requestRef, nextHandle>>
                            ELSE /\ interactionRef' = r.data
                                 /\ lastCall' = "wrote"
                                 /\ requestRef' = nextHandle
                                 /\ pending' = pend \cup {nextHandle}
                                 /\ nextHandle' = nextHandle + 1
                                 /\ UNCHANGED threw
              ELSE /\ requestRef' = nextHandle
                   /\ pending' = pend \cup {nextHandle}
                   /\ nextHandle' = nextHandle + 1
                   /\ lastCall' = "idle"
                   /\ UNCHANGED <<interactionRef, lastResult, threw>>

\* The video element fires 'loadeddata': the listener predictWebcam runs.  The
\* listener is never removed, so the element can fire it after the unmount
\* too.
LoadedData(D) ==
    /\ listening
    /\ loaded < MaxLoaded
    /\ nextHandle <= MaxHandles \/ ReturnsAtOnce
    /\ loaded' = loaded + 1
    /\ PredictWebcam(D, pending)
    /\ UNCHANGED <<isTracking, active, setupPc, handLandmarkerRef, videoRef,
                   listening, streamOpen>>
    /\ UNCHANGED <<genVars, fieldVars>>

\* The browser runs a pending animation-frame request: predictWebcam.
AnimationFrame(D) ==
    /\ nextHandle <= MaxHandles \/ ReturnsAtOnce
    /\ \E h \in pending : PredictWebcam(D, pending \ {h})
    /\ UNCHANGED <<isTracking, active, setupPc, handLandmarkerRef, videoRef,
                   listening, streamOpen, loaded>>
    /\ UNCHANGED <<genVars, fieldVars>>

\* An unmount after which videoRef.current still holds the video element.
UnmountKeepsVideo ==
    /\ active
    /\ active' = FALSE
    /\ handLandmarkerRef' = IF handLandmarkerRef = "null" THEN "null" ELSE "closed"
    /\ pending' = IF requestRef # 0 THEN pending \ {requestRef} ELSE pending
    /\ UNCHANGED <<interactionRef, isTracking, setupPc, listening, streamOpen,
                   requestRef, nextHandle, loaded, lastResult, lastCall, prevRef,
                   threw, videoRef>>
    /\ UNCHANGED <<genVars, fieldVars>>

\* HandTracker unmounts: React clears videoRef and runs the effect's cleanup.
Unmount ==
    /\ active
    /\ active' = FALSE
    /\ videoRef' = "null"
    /\ handLandmarkerRef' = IF handLandmarkerRef = "null" THEN "null" ELSE "closed"
    /\ pending' = IF requestRef # 0 THEN pending \ {requestRef} ELSE pending
    /\ UNCHANGED <<interactionRef, isTracking, setupPc, listening, streamOpen,
                   requestRef, nextHandle, loaded, lastResult, lastCall, prevRef,
                   threw>>
    /\ UNCHANGED <<genVars, fieldVars>>

TrackNext(D) ==
    \/ ResolverResolved
    \/ SetupRejected
    \/ CreateResolved
    \/ WebcamResolved
    \/ WebcamRejected
    \/ LoadedData(D)
    \/ AnimationFrame(D)
    \/ Unmount

\* ------------------------------------------------------------ the field

\* Particles mounted for the shape of App's initial state: the three buffers
\* hold the generation of useMemo (draws tape1), and the effect that follows
\* the mount has rewritten targetPositions with a generation of its own
\* (draws tape2).  The smoothing refs hold scale 1, offset (0, 0), rotation
\* (0, 0, 0).  useMemo allocated pos, curr, targ and the array generateParticles
\* returned, the effect one more array: five in all.
FieldStart(tape1, tape2) ==
    /\ currentShape = "Galaxy"
    /\ positions = generateParticles("Galaxy", tape1)
    /\ currentPositions = FineArray(generateParticles("Galaxy", tape1))
    /\ newTargets = generateParticles("Galaxy", tape2)
    /\ targetPositions = FineArray(newTargets)
    /\ currentScaleRef = ToFine(FP)
    /\ currentPosRef = [x |-> 0, y |-> 0]
    /\ currentRotRef = [x |-> 0, y |-> 0, z |-> 0]
    /\ elapsed = 0
    /\ ticks = 0
    /\ tickThrew = 0
    /\ shapeChanges = 0
    /\ finalScale = 0
    /\ arrays = [positions |-> 1, currentPositions |-> 2, targetPositions |-> 3]
    /\ allocated = 5

\* setShape(shape) from the shape selector: the effect of Particles copies a
\* generation of the new shape (a fresh array) into targetPositions.
SetShape ==
    /\ shapeChanges < MaxShapeChanges
    /\ \E shape \in ParticleShape \ {currentShape}, tape \in CoarseTapes :
           /\ currentShape' = shape
           /\ newTargets' = generateParticles(shape, tape)
           /\ targetPositions' = FineArray(newTargets')
    /\ shapeChanges' = shapeChanges + 1
    /\ allocated' = allocated + 1
    /\ UNCHANGED <<positions, currentPositions, currentScaleRef, currentPosRef,
                   currentRotRef, elapsed, ticks, tickThrew, finalScale, arrays>>
    /\ UNCHANGED <<genVars, trackVars>>

\* The cell as the sample written before the latest one.
StaleCell == prevRef

\* const { scale, position, rotation } = interactionRef.current: the one read
\* of the shared cell in a tick.
CellRead == interactionRef

\* One render tick: the useFrame callback of Particles.  It reads the shared
\* cell, smooths scale and offset, then reads targetRot.x: where the cell has
\* no rotation this throws a TypeError and the callback ends there.
\* Otherwise it smooths the rotation, morphs every particle and rewrites the
\* output buffer.
TickStep(limit) ==
    /\ ticks < limit
    /\ ticks' = ticks + 1
    /\ \E dt \in FrameDeltas : elapsed' = elapsed + dt
    /\ currentScaleRef' = Lerp(currentScaleRef, ToFine(CellRead.scale), ScaleLerp20)
    /\ currentPosRef' =
           [x |-> Lerp(currentPosRef.x, ToFine(CellRead.position.x), PosLerp20),
            y |-> Lerp(currentPosRef.y, ToFine(CellRead.position.y), PosLerp20)]
    /\ IF "rotation" \notin DOMAIN CellRead
       THEN /\ tickThrew' = tickThrew + 1
            /\ UNCHANGED <<currentRotRef, currentPositions, positions, finalScale>>
       ELSE /\ currentRotRef' =
                   [x |-> Lerp(currentRotRef.x, ToFine(CellRead.rotation.x), RotLerp20),
                    y |-> Lerp(currentRotRef.y, ToFine(CellRead.rotation.y), RotLerp20),
                    z |-> Lerp(currentRotRef.z, ToFine(CellRead.rotation.z), RotLerp20)]
            /\ currentPositions' = MorphAll(currentPositions, targetPositions)
            /\ finalScale' = FinalScale(currentScaleRef', elapsed)
            /\ positions' = ComposeAll(currentPositions', currentScaleRef',
                                       currentPosRef'.x, currentPosRef'.y,
                                       currentRotRef', elapsed)
            /\ UNCHANGED tickThrew
    /\ UNCHANGED <<currentShape, targetPositions, shapeChanges, arrays, allocated,
                   newTargets>>
    /\ UNCHANGED <<genVars, trackVars>>

\* A render tick of a run of at most MaxTicks ticks.
Tick == TickStep(MaxTicks)

\* --------------------------------------------------------- specifications

\* The draws of the field's generations where the field is not under check.
DefaultTape == [k \in 1 .. (MaxDraws * PARTICLE_COUNT) |-> 125]

\* generateParticles alone, for every shape value and every draw.
GenInit ==
    /\ genShape \in ParticleShape \cup {UnknownShape}
    /\ GenStart
    /\ TrackInit
    /\ FieldStart(DefaultTape, DefaultTape)

GenNext == GenStep \/ GenReturn

SpecGen == GenInit /\ [][GenNext]_vars

\* The hand tracker alone, for the detection results Detections.
TrackerInit ==
    /\ genShape = "Galaxy"
    /\ GenStart
    /\ TrackInit
    /\ FieldStart(DefaultTape, DefaultTape)

TrackerNext == TrackNext(Detections)

SpecTrack == TrackerInit /\ [][TrackerNext]_vars

\* The application: the hand tracker, the shape selector and the render loop.
Init ==
    /\ genShape = "Galaxy"
    /\ GenStart
    /\ TrackInit
    /\ \E tape1 \in CoarseTapes, tape2 \in CoarseTapes : FieldStart(tape1, tape2)

Next ==
    \/ TrackNext(CoarseDetections)
    \/ SetShape
    \/ Tick

Spec == Init /\ [][Next]_vars

\* The most render ticks of a run of SpecIdle while hands may still be
\* detected.
MaxBusyTicks == 2

\* The most render ticks of a run of SpecIdle after that.
SettleTicks == 22

\* The hand tracker after its setup: the landmarker created, the webcam
\* stream acquired, the 'loadeddata' listener added, no detection yet.
TrackRunning ==
    /\ interactionRef = InitialInteraction
    /\ isTracking = TRUE
    /\ active = TRUE
    /\ setupPc = "done"
    /\ handLandmarkerRef = "open"
    /\ videoRef = "video"
    /\ listening = TRUE
    /\ streamOpen = TRUE
    /\ requestRef = 0
    /\ pending = {}
    /\ nextHandle = 1
    /\ loaded = 0
    /\ lastResult = <<>>
    /\ lastCall = "none"
    /\ prevRef = InitialInteraction
    /\ threw = 0

\* CoarseDetections and the two results of the extreme scales: one hand
\* pinched (scale 0.5), and two hands with the wrists more than 0.8 apart
\* (scale 2.5).
BusyDetections ==
    CoarseDetections
      \cup {<<Hand(21, Pt(700, 500), ThumbPt, Pt(400, 410))>>,
            <<Hand(21, Pt(0 - 200, 1100), ThumbPt, Pt(400, 410)),
              Hand(21, Pt(700, 500), ThumbPt, Pt(400, 410))>>}

\* result.landmarks of a detection of SpecIdle: any of BusyDetections during
\* the first MaxBusyTicks ticks, zero hands from then on.
IdleDetections == IF ticks < MaxBusyTicks THEN BusyDetections ELSE {<<>>}

\* The ticks a run of SpecIdle may reach in the current state: MaxBusyTicks,
\* and SettleTicks more on the neutral sample.
IdleLimit ==
    IF interactionRef = NeutralSample THEN MaxBusyTicks + SettleTicks ELSE MaxBusyTicks

\* A render tick of SpecIdle.
IdleTick == TickStep(IdleLimit)

\* The step of IdleTick as its counter shows it.  IdleTick is the only action
\* of SpecIdle that changes ticks, and it is enabled exactly where
\* ticks < IdleLimit, so weak fairness of FrameRuns (in ticks) is weak fairness
\* of IdleTick.
FrameRuns == ticks < IdleLimit /\ ticks' = ticks + 1

\* The running application whose detector sees zero hands in the end: the
\* detection cycles and the render loop.  The render loop of the canvas calls
\* the useFrame callback on every display frame, so a tick that is due
\* eventually runs.
IdleInit ==
    /\ genShape = "Galaxy"
    /\ GenStart
    /\ TrackRunning
    /\ \E tape1 \in CoarseTapes, tape2 \in CoarseTapes : FieldStart(tape1, tape2)

IdleNext ==
    \/ LoadedData(IdleDetections)
    \/ AnimationFrame(IdleDetections)
    \/ IdleTick

SpecIdle ==
    /\ IdleInit
    /\ [][IdleNext]_vars
    /\ WF_ticks(FrameRuns)

\* ----------------------------------------------------------------- claims

\* C1: generateParticles returns PARTICLE_COUNT points (3 * PARTICLE_COUNT
\* coordinates, every particle of the loop written), every coordinate finite,
\* for every shape and every draw of the random source; a shape outside the
\* enum yields the cube, every coordinate in [-5, 5].
C1_GenerateReturnsNFinitePoints ==
    genPc = "done" =>
        /\ genI = PARTICLE_COUNT
        /\ DOMAIN genOut = 0 .. ((3 * PARTICLE_COUNT) - 1)
        /\ \A k \in DOMAIN genOut : IsFinite(genOut[k])
        /\ genShape \notin ParticleShape =>
               \A k \in DOMAIN genOut : genOut[k] >= 0 - (5 * FP) /\ genOut[k] <= 5 * FP

\* C1 witness: a finished generation of an unknown shape that reached the
\* face x = -5 of the cube with its first particle and 2.5 with its last.
C1_Witness ==
    /\ genPc = "done"
    /\ genShape = UnknownShape
    /\ genOut[0] = 0 - (5 * FP)
    /\ genOut[(3 * PARTICLE_COUNT) - 1] = 2500

\* The squared distance of two landmarks, in squared FP units.
SqDist(p, q) == ((p.x - q.x) * (p.x - q.x)) + ((p.y - q.y) * (p.y - q.y))

\* The latest predictWebcam call detected on a playing video and its write
\* of the shared cell is the current value of the cell.
Detected == lastCall = "wrote"

\* C2: a detection of zero hands writes exactly the neutral sample: scale 1.0,
\* offset (0, 0), rotation (0, 0, 0), whatever the cell held before.
C2_ZeroHandsNeutral ==
    (Detected /\ Len(lastResult) = 0) =>
        /\ interactionRef.scale = FP
        /\ interactionRef.position = [x |-> 0, y |-> 0]
        /\ interactionRef.rotation = [x |-> 0, y |-> 0, z |-> 0]
        /\ DOMAIN interactionRef = {"scale", "position", "rotation"}

\* C2 witness: zero hands detected while the cell held a sample of scale 2.5
\* that was off centre.
C2_Witness ==
    /\ Detected
    /\ Len(lastResult) = 0
    /\ prevRef.scale = 2500
    /\ prevRef.position.x # 0
    /\ interactionRef.scale = FP

\* C3: with two hands the scale is 0.5 + ((clamp(d, 0.1, 0.8) - 0.1) / 0.7) * 2
\* for the wrist distance d: 0.5 for d <= 0.1, 2.5 for d >= 0.8, in between the
\* line 7 * (scale - 0.5) + 2 = 20 * d (to the rounding of the thousandths),
\* non-decreasing in d, and always in [0.5, 2.5].
C3_TwoHandScale ==
    (Detected /\ Len(lastResult) = 2) =>
        LET d2 == SqDist(lastResult[1].wrist, lastResult[2].wrist)
            sc == interactionRef.scale
            e  == (7 * (sc - 500)) + (2 * FP)
        IN  /\ sc >= 500 /\ sc <= 2500
            /\ d2 <= 100 * 100 => sc = 500
            /\ d2 >= 800 * 800 => sc = 2500
            /\ (d2 >= 100 * 100 /\ d2 <= 800 * 800) =>
                   /\ (e - 35) * (e - 35) <= 400 * d2
                   /\ 400 * d2 <= (e + 35) * (e + 35)
            /\ \A other \in Detections :
                   (/\ Len(other) = 2
                    /\ ~Extract(other).threw
                    /\ SqDist(other[1].wrist, other[2].wrist) >= d2)
                       => Extract(other).data.scale >= sc

\* C3 witness: the wrists at (0.3, 0.5) and (0.7, 0.5), distance 0.4, give a
\* scale of 1.357 (1.358 to the rounding of the thousandths).
C3_Witness ==
    /\ Detected
    /\ Len(lastResult) = 2
    /\ lastResult[1].wrist = Pt(300, 500)
    /\ lastResult[2].wrist = Pt(700, 500)
    /\ interactionRef.scale >= 1357
    /\ interactionRef.scale <= 1358

\* C4: with one hand the scale is 0.5 + ((clamp(d, 0.02, 0.2) - 0.02) / 0.18)
\* * 1.5 for the distance d of thumb tip and index tip: in between the clamps
\* the line 3 * (scale - 0.5) + 0.5 = 25 * d, non-decreasing in d, and always
\* in [0.5, 2.0].
C4_OneHandScale ==
    (Detected /\ Len(lastResult) = 1) =>
        LET d2 == SqDist(lastResult[1].thumb, lastResult[1].index)
            sc == interactionRef.scale
            e  == (3 * (sc - 500)) + 500
        IN  /\ sc >= 500 /\ sc <= 2 * FP
            /\ d2 <= 20 * 20 => sc = 500
            /\ d2 >= 200 * 200 => sc = 2 * FP
            /\ (d2 >= 20 * 20 /\ d2 <= 200 * 200) =>
                   /\ (e - 30) * (e - 30) <= 625 * d2
                   /\ 625 * d2 <= (e + 30) * (e + 30)
            /\ \A other \in Detections :
                   (/\ Len(other) = 1
                    /\ ~Extract(other).threw
                    /\ SqDist(other[1].thumb, other[1].index) >= d2)
                       => Extract(other).data.scale >= sc

\* C4 witness: a pinch of distance 0.1 gives a scale strictly inside
\* (0.5, 2.0).
C4_Witness ==
    /\ Detected
    /\ Len(lastResult) = 1
    /\ SqDist(lastResult[1].thumb, lastResult[1].index) = 100 * 100
    /\ interactionRef.scale > 1100
    /\ interactionRef.scale < 1200

\* C5 as claimed: a detection of more than two hands does not throw and
\* writes the two-hand sample of the first two hands.
C5_Claim_FirstTwoHands ==
    (lastCall \in {"wrote", "threw"} /\ Len(lastResult) > 2 /\ lastResult[1].len > 0
       /\ lastResult[2].len > 0) =>
        /\ lastCall = "wrote"
        /\ interactionRef = TwoHands(lastResult[1].wrist, lastResult[2].wrist)

\* C5 as amended: a detection of more than two hands does not throw, reads
\* no landmark and writes the neutral sample, as a detection of zero hands
\* does; the next animation frame is requested.
C5_MoreThanTwoHandsNeutral ==
    (lastCall \in {"wrote", "threw"} /\ Len(lastResult) > 2) =>
        /\ lastCall = "wrote"
        /\ interactionRef.scale = FP
        /\ interactionRef.position = [x |-> 0, y |-> 0]
        /\ interactionRef.rotation = [x |-> 0, y |-> 0, z |-> 0]
        /\ requestRef = nextHandle - 1

\* C5 witness: three hands detected, the first two with wrists 0.5 apart,
\* while the cell held a sample of another scale; the neutral sample is
\* written.
C5_Witness ==
    /\ Detected
    /\ Len(lastResult) = 3
    /\ lastResult[2].len = 21
    /\ lastResult[2].wrist = Pt(700, 800)
    /\ prevRef.scale = 2500
    /\ interactionRef.scale = FP

\* A hand that lacks one of the landmarks 0, 4, 8.
Malformed(hand) == hand.len <= 8

\* result.landmarks without its malformed hands.
WellFormedOnly(landmarks) == SelectSeq(landmarks, LAMBDA h : ~Malformed(h))

\* C6 as claimed: a hand that lacks a required landmark is treated as absent:
\* the detection writes the sample of the hands that remain, nothing throws
\* and the next animation frame is requested.
C6_Claim_MalformedHandAbsent ==
    (/\ lastCall \in {"wrote", "threw"}
     /\ \E k \in 1 .. Len(lastResult) : Malformed(lastResult[k])) =>
        /\ lastCall = "wrote"
        /\ interactionRef = Extract(WellFormedOnly(lastResult)).data
        /\ requestRef \in pending

\* C7 as claimed: every sample in the shared cell has offset.x in [-4, 4] and
\* offset.y in [-3, 3], also for landmarks outside [0, 1].
C7_Claim_OffsetBounded ==
    /\ interactionRef.position.x >= 0 - (4 * FP)
    /\ interactionRef.position.x <= 4 * FP
    /\ interactionRef.position.y >= 0 - (3 * FP)
    /\ interactionRef.position.y <= 3 * FP

\* The shared cell still holds the object App created: no detection has
\* written a sample.
NoSampleDelivered == "rotation" \notin DOMAIN interactionRef

\* C8 as claimed: while the gesture source has delivered no sample, the
\* shared cell holds scale 1 and offset (0, 0) and every render tick
\* completes without faulting.
C8_Claim_TicksCompleteWithoutSample ==
    NoSampleDelivered =>
        /\ interactionRef.scale = FP
        /\ interactionRef.position = [x |-> 0, y |-> 0]
        /\ tickThrew = 0

\* The gap of a smoothed value v to its target y shrinks by the factor
\* 1 - n20 / 20 in a step from v to w.
Decays(v, w, y, n20) == y - w = (20 - n20) * ((y - v) \div 20)

\* C9 as claimed: every render tick multiplies the gap of every smoothed
\* value to its target by 1 - alpha: alpha = 0.15 for every morph coordinate
\* and the scale, 0.1 for every offset axis and rotation axis (the rotation
\* where the cell holds one).
C9_Claim_GeometricDecay ==
    [][ticks' = ticks + 1 =>
        /\ Decays(currentScaleRef, currentScaleRef', ToFine(interactionRef.scale), 3)
        /\ Decays(currentPosRef.x, currentPosRef'.x, ToFine(interactionRef.position.x), 2)
        /\ Decays(currentPosRef.y, currentPosRef'.y, ToFine(interactionRef.position.y), 2)
        /\ ~NoSampleDelivered =>
               /\ Decays(currentRotRef.x, currentRotRef'.x,
                         ToFine(interactionRef.rotation.x), 2)
               /\ Decays(currentRotRef.y, currentRotRef'.y,
                         ToFine(interactionRef.rotation.y), 2)
               /\ Decays(currentRotRef.z, currentRotRef'.z,
                         ToFine(interactionRef.rotation.z), 2)
        /\ \A k \in DOMAIN currentPositions :
               Decays(currentPositions[k], currentPositions'[k], targetPositions[k], 3)
       ]_vars

\* C10 as claimed: a shape change rewrites targetPositions and leaves the
\* current-morph buffer, the output buffer and the smoothed scale, offset and
\* rotation as they are; in every tick after a shape change every
\* current-morph coordinate moves by 0.15 times its gap to the target of that
\* tick.
C10_Claim_ShapeChangeMorphsContinuously ==
    [][/\ shapeChanges' = shapeChanges + 1 =>
              UNCHANGED <<currentPositions, positions, currentScaleRef, currentPosRef,
                          currentRotRef>>
       /\ (ticks' = ticks + 1 /\ shapeChanges > 0) =>
              \A k \in DOMAIN currentPositions :
                  Decays(currentPositions[k], currentPositions'[k], targetPositions[k], 3)
      ]_vars

\* A render tick that reached the end of the useFrame callback.
CompleteTick == ticks' = ticks + 1 /\ tickThrew' = tickThrew

\* The three coordinates of particle i in a buffer of smoothed values, in FP
\* units.
PointOf(buffer, i) ==
    <<ToFP(buffer[3 * i]), ToFP(buffer[(3 * i) + 1]), ToFP(buffer[(3 * i) + 2])>>

\* C11: the output, current-morph and target-morph buffers always hold
\* PARTICLE_COUNT points and stay the three arrays allocated at the creation of
\* the field; a tick writes particle i of the current-morph buffer from
\* particle i of the current-morph and target-morph buffers and particle i of
\* the output buffer from particle i of the current-morph buffer; a shape
\* change writes entry k of the target-morph buffer from entry k of the
\* generated array and no other buffer.
C11_BuffersKeepParticles ==
    /\ [](/\ DOMAIN positions = 0 .. ((3 * PARTICLE_COUNT) - 1)
          /\ DOMAIN currentPositions = 0 .. ((3 * PARTICLE_COUNT) - 1)
          /\ DOMAIN targetPositions = 0 .. ((3 * PARTICLE_COUNT) - 1)
          /\ arrays = [positions |-> 1, currentPositions |-> 2, targetPositions |-> 3])
    /\ [][/\ CompleteTick =>
                 /\ targetPositions' = targetPositions
                 /\ \A k \in 0 .. ((3 * PARTICLE_COUNT) - 1) :
                        currentPositions'[k]
                            = MorphStep(currentPositions[k], targetPositions[k])
                 /\ \A i \in 0 .. (PARTICLE_COUNT - 1) :
                        <<positions'[3 * i], positions'[(3 * i) + 1],
                          positions'[(3 * i) + 2]>>
                            = Compose(PointOf(currentPositions', i), currentScaleRef',
                                      currentPosRef'.x, currentPosRef'.y,
                                      currentRotRef', elapsed)
          /\ shapeChanges' = shapeChanges + 1 =>
                 /\ UNCHANGED <<positions, currentPositions>>
                 /\ \A k \in 0 .. ((3 * PARTICLE_COUNT) - 1) :
                        targetPositions'[k] = ToFine(newTargets'[k])
         ]_vars

\* C11 witness: after a shape change (a sixth array was allocated for the
\* generation) and a tick that rewrote the output buffer, the morph still
\* under way.
C11_Witness ==
    /\ shapeChanges >= 1
    /\ allocated = 5 + shapeChanges
    /\ finalScale # 0
    /\ \E k \in DOMAIN currentPositions : currentPositions[k] # targetPositions[k]
    /\ arrays.targetPositions = 3

\* C12: every render tick smooths the scale, the offset and (where the tick
\* reaches it) the rotation toward the fields of one value of the shared cell,
\* the one the cell holds when the tick runs: the sample written last, or
\* App's initial object while none was written.  The only tick that does not
\* reach the rotation is a tick on that initial object.
C12_TickReadsLatestSample ==
    [][ticks' = ticks + 1 =>
        /\ currentScaleRef'
               = Lerp(currentScaleRef, ToFine(interactionRef.scale), ScaleLerp20)
        /\ currentPosRef'.x
               = Lerp(currentPosRef.x, ToFine(interactionRef.position.x), PosLerp20)
        /\ currentPosRef'.y
               = Lerp(currentPosRef.y, ToFine(interactionRef.position.y), PosLerp20)
        /\ IF tickThrew' = tickThrew
           THEN /\ currentRotRef'.x
                       = Lerp(currentRotRef.x, ToFine(interactionRef.rotation.x), RotLerp20)
                /\ currentRotRef'.y
                       = Lerp(currentRotRef.y, ToFine(interactionRef.rotation.y), RotLerp20)
                /\ currentRotRef'.z
                       = Lerp(currentRotRef.z, ToFine(interactionRef.rotation.z), RotLerp20)
           ELSE interactionRef = InitialInteraction /\ lastCall # "wrote"
       ]_vars

\* C12 witness: a sample of another scale and offset was overwritten before
\* any tick read it, and the one tick so far moved the smoothed scale and
\* offset toward the sample that replaced it.
C12_Witness ==
    /\ ticks = 1
    /\ tickThrew = 0
    /\ lastCall = "wrote"
    /\ "rotation" \in DOMAIN prevRef
    /\ prevRef.scale # interactionRef.scale
    /\ prevRef.position.x # interactionRef.position.x
    /\ interactionRef.scale # FP
    /\ currentScaleRef = Lerp(ToFine(FP), ToFine(interactionRef.scale), ScaleLerp20)
    /\ currentPosRef.x = Lerp(0, ToFine(interactionRef.position.x), PosLerp20)

\* C13: once the cleanup of the hand tracker has run, no predictWebcam call
\* detects, writes the shared cell or requests an animation frame, wherever
\* the unmount falls among the awaits of the setup, the 'loadeddata' events
\* and the pending animation frames: a call that still runs returns at once.
C13_NoDetectionAfterStop ==
    [][~active =>
        /\ interactionRef' = interactionRef
        /\ lastResult' = lastResult
        /\ threw' = threw
        /\ nextHandle' = nextHandle
        /\ requestRef' = requestRef
        /\ pending' \subseteq pending
        /\ lastCall' \in {lastCall, "returned"}
       ]_vars

\* C13 witness: 'loadeddata' fired twice, the cleanup cancelled the later of
\* the two pending animation frames, and the earlier one ran after the
\* cleanup and returned at once, the cell as the last detection left it.
C13_Witness ==
    /\ ~active
    /\ loaded = 2
    /\ lastCall = "returned"
    /\ pending = {}
    /\ handLandmarkerRef = "closed"
    /\ "rotation" \in DOMAIN interactionRef
    /\ interactionRef.scale # FP

\* setupMediaPipe and startWebcam have run to their end: no await of the
\* setup is in flight.
SetupSettled == setupPc \in {"done", "returned", "failed"}

\* C14 as claimed: once the cleanup has run and the setup has settled, no
\* hand-landmarker instance is left open and no webcam stream is left
\* acquired.
C14_Claim_ResourcesReleased ==
    (~active /\ SetupSettled) =>
        /\ handLandmarkerRef # "open"
        /\ ~streamOpen

\* Coordinates of input points of the per-particle transform, in FP units.
GridCoords == {0 - 5000, 0 - 1234, 0, 1, 4321}

\* C15: with smoothed scale exactly 1.0, smoothed rotation (0, 0, 0), smoothed
\* offset (0, 0) and elapsed time 0 the per-particle transform returns its
\* input point: for every point of the grid, and for every particle of a tick
\* that runs at time 0 with these smoothed values.
C15_ComposeIdentity ==
    /\ [](\A x \in GridCoords, y \in GridCoords, z \in GridCoords :
             Compose(<<x, y, z>>, ToFine(FP), 0, 0, [x |-> 0, y |-> 0, z |-> 0], 0)
                 = <<x, y, z>>)
    /\ [][(/\ CompleteTick
           /\ elapsed = 0
           /\ currentScaleRef' = ToFine(FP)
           /\ currentPosRef' = [x |-> 0, y |-> 0]
           /\ currentRotRef' = [x |-> 0, y |-> 0, z |-> 0]) =>
              \A i \in 0 .. (PARTICLE_COUNT - 1) :
                  <<positions'[3 * i], positions'[(3 * i) + 1], positions'[(3 * i) + 2]>>
                      = PointOf(currentPositions', i)
         ]_vars

\* C15 witness: the first tick ran at time 0 on the neutral sample, the
\* morph under way, and the output buffer holds the morphed points.
C15_Witness ==
    /\ ticks = 1
    /\ tickThrew = 0
    /\ elapsed = 400
    /\ currentScaleRef = ToFine(FP)
    /\ currentPosRef = [x |-> 0, y |-> 0]
    /\ currentRotRef = [x |-> 0, y |-> 0, z |-> 0]
    /\ \E k \in DOMAIN currentPositions : currentPositions[k] # targetPositions[k]
    /\ \A i \in 0 .. (PARTICLE_COUNT - 1) :
           <<positions[3 * i], positions[(3 * i) + 1], positions[(3 * i) + 2]>>
               = PointOf(currentPositions, i)

\* C16: in every render tick that reaches the particle loop, finalScale is the
\* smoothed scale of that tick where it is more than 0.05 away from 1.0,
\* whatever the elapsed time, and the smoothed scale times
\* sin(2 * elapsed) * 0.05 + 1 otherwise; the z coordinate of every particle
\* is its rotated point times that finalScale.
C16_BreathingDeadband ==
    [][CompleteTick =>
        /\ Abs(currentScaleRef' - ToFine(FP)) > ToFine(50) =>
               finalScale' = ToFP(currentScaleRef')
        /\ Abs(currentScaleRef' - ToFine(FP)) <= ToFine(50) =>
               finalScale' = Mul(ToFP(currentScaleRef'), Mul(SinRad(2 * elapsed), 50) + FP)
        /\ \A i \in 0 .. (PARTICLE_COUNT - 1) :
               positions'[(3 * i) + 2]
                   = Mul(ApplyEuler(PointOf(currentPositions', i),
                                    EulerOf(currentRotRef', elapsed))[3],
                         finalScale')
       ]_vars

\* C16 witness: a tick at a time where the breathing factor is not 1 ran with
\* a smoothed scale outside the deadband, while the cell already holds the
\* neutral scale again: finalScale is the smoothed scale.
C16_Witness ==
    /\ ticks >= 2
    /\ tickThrew = 0
    /\ Breathing(elapsed - 400) # FP
    /\ Abs(currentScaleRef - ToFine(FP)) > ToFine(50)
    /\ interactionRef.scale = FP
    /\ finalScale = ToFP(currentScaleRef)

\* The rendered point of particle i for the buffers and smoothed values given:
\* the morphed point rotated, then multiplied by finalScale, then moved by the
\* offset in x and y.
Rendered(morphed, i, fs, offset, rot, time) ==
    LET r == ApplyEuler(PointOf(morphed, i), EulerOf(rot, time))
    IN  <<Mul(r[1], fs) + ToFP(offset.x), Mul(r[2], fs) + ToFP(offset.y), Mul(r[3], fs)>>

\* C17: the rendered point of every particle is rotate(morphed point) *
\* finalScale + (offset.x, offset.y, 0): the offset is added last, neither
\* rotated nor scaled, and the rendered z does not depend on it.
C17_RotateScaleTranslate ==
    [][CompleteTick =>
        \A i \in 0 .. (PARTICLE_COUNT - 1) :
            /\ <<positions'[3 * i], positions'[(3 * i) + 1], positions'[(3 * i) + 2]>>
                   = Rendered(currentPositions', i, finalScale', currentPosRef',
                              currentRotRef', elapsed)
            /\ positions'[(3 * i) + 2]
                   = Rendered(currentPositions', i, finalScale', [x |-> 0, y |-> 0],
                              currentRotRef', elapsed)[3]
       ]_vars

\* C17 witness: a tick ran with a smoothed offset off centre in x, a smoothed
\* rotation about y and a finalScale other than 1, and the output buffer holds
\* the rotated, scaled and then moved points.
C17_Witness ==
    /\ ticks >= 1
    /\ tickThrew = 0
    /\ currentPosRef.x # 0
    /\ currentRotRef.y # 0
    /\ finalScale # FP
    /\ \A i \in 0 .. (PARTICLE_COUNT - 1) :
           <<positions[3 * i], positions[(3 * i) + 1], positions[(3 * i) + 2]>>
               = Rendered(currentPositions, i, finalScale, currentPosRef,
                          currentRotRef, elapsed - 400)

\* C18: the smoothed scale always lies in [0.5, 2.5]: it starts at 1.0 and
\* every tick leaves it between its previous value and the scale of the cell,
\* which lies in [0.5, 2.5]; finalScale is strictly positive in every tick
\* that computes it.
C18_ScaleInRange ==
    /\ [](/\ currentScaleRef >= ToFine(500)
          /\ currentScaleRef <= ToFine(2500)
          /\ interactionRef.scale >= 500
          /\ interactionRef.scale <= 2500)
    /\ [][ticks' = ticks + 1 =>
             /\ currentScaleRef' >= Min(currentScaleRef, ToFine(interactionRef.scale))
             /\ currentScaleRef' <= Max(currentScaleRef, ToFine(interactionRef.scale))
             /\ CompleteTick => finalScale' > 0
         ]_vars

\* C18 witness: two ticks on the sample of a pinched hand (scale 0.5) brought
\* the smoothed scale below 0.9, with finalScale positive and below 0.9 too.
C18_Witness ==
    /\ ticks >= 2
    /\ tickThrew = 0
    /\ interactionRef.scale = 500
    /\ currentScaleRef < ToFine(900)
    /\ finalScale > 0
    /\ finalScale < 900

\* C19 as claimed: at every moment at most one detection callback is pending
\* and its handle is the one in requestRef, also when 'loadeddata' fires more
\* than once; so after the cleanup no detection callback is pending.
C19_Claim_SinglePendingFrame ==
    /\ Cardinality(pending) <= 1
    /\ pending # {} => pending = {requestRef}
    /\ ~active => pending = {}

\* |smoothedScale - 1.0| <= 0.05: the breathing is on.
InDeadband == Abs(currentScaleRef - ToFine(FP)) <= ToFine(50)

\* The latest detection cycle ran on a playing video and saw zero hands.
SeesZeroHands == lastCall = "wrote" /\ Len(lastResult) = 0

\* w lies between 0 and v.
Toward0(v, w) == (v >= 0 => (w >= 0 /\ w <= v)) /\ (v <= 0 => (w <= 0 /\ w >= v))

\* C20: if from some detection cycle on the detector sees zero hands, then
\* after finitely many render ticks |smoothedScale - 1.0| <= 0.05 holds and
\* keeps holding; and every tick on the sample of zero hands leaves the
\* smoothed offset and rotation, on every axis, between 0 and their previous
\* value.
C20_ReturnsToIdle ==
    /\ (<>[]SeesZeroHands) => <>[]InDeadband
    /\ [][(SeesZeroHands /\ ticks' = ticks + 1) =>
             /\ CompleteTick
             /\ Toward0(currentPosRef.x, currentPosRef'.x)
             /\ Toward0(currentPosRef.y, currentPosRef'.y)
             /\ Toward0(currentRotRef.x, currentRotRef'.x)
             /\ Toward0(currentRotRef.y, currentRotRef'.y)
             /\ Toward0(currentRotRef.z, currentRotRef'.z)
         ]_vars

\* C20 witness: a detection of zero hands replaced the sample of a hand; the
\* ticks since then brought the smoothed scale, displaced by that sample, back
\* into the deadband, the offset still on its way to 0.
C20_Witness ==
    /\ SeesZeroHands
    /\ "rotation" \in DOMAIN prevRef
    /\ prevRef.scale # FP
    /\ ticks >= MaxBusyTicks + 3
    /\ InDeadband
    /\ currentScaleRef # ToFine(FP)
    /\ currentPosRef.x # 0

====
